---- MODULE Spec2Model ----
(***************************************************************************)
(* Model of resourceful_bot.py: the Slack message handler handle_message,  *)
(* which filters inbound message events, annotates them with reactions,    *)
(* forwards them to the Gumloop webhook and posts the reply.               *)
(*                                                                         *)
(* Every invocation of handle_message owns one slot h of Handlers.  The    *)
(* slot holds the invocation's locals (event, response, the caught         *)
(* exception) and the record of the external calls it made, in order.      *)
(* Each external call (reactions_add, reactions_remove, requests.post,     *)
(* say) is one action whose outcome is drawn from the outcomes the call    *)
(* can have: it returns, or it raises.                                     *)
(***************************************************************************)
EXTENDS Integers, Sequences, FiniteSets, TLC

\* Number of invocation slots.
NumHandlers == 2

Handlers == 1..NumHandlers

\* A key that a dict does not hold; dict.get(key) then yields None.
ABSENT == "<absent>"

\* CHANNELS, the channel mapping.
CHANNELS ==
    ("C09NEFLB30C" :> "vision-agent") @@
    ("C09NEFNNXD2" :> "strategy-agent") @@
    ("C09NAV7HT26" :> "testing-agent") @@
    ("C09PA0D1ED6" :> "matching-agent") @@
    ("C09NA0DUTRC" :> "scheduler-agent") @@
    ("C09PGG5L7AL" :> "nick-clarity") @@
    ("C09N6NVDWKH" :> "jordan-clarity")

\* Reaction names used by the handler.
HOURGLASS == "hourglass_flowing_sand"
CHECKMARK == "white_check_mark"

(***************************************************************************)
(* Inbound events.  An event is the dict Slack delivers; a field that is   *)
(* ABSENT is a key the dict does not hold.                                 *)
(***************************************************************************)
EventBotIds == {ABSENT, "B0BOT"}
EventChannels == {ABSENT, "C09NEFLB30C", "C09NEFNNXD2", "C0UNTRACKED"}
EventTexts == {ABSENT, "", "hello"}
EventTimestamps == {"1700000000.000100"}

Events ==
    [bot_id : EventBotIds, channel : EventChannels,
     text : EventTexts, ts : EventTimestamps]

NoEvent == [bot_id |-> ABSENT, channel |-> ABSENT, text |-> ABSENT, ts |-> ABSENT]

\* dict.get(key, default) on an event or on a parsed JSON object.
DictGet(d, key, default) == IF d[key] = ABSENT THEN default ELSE d[key]

(***************************************************************************)
(* Outcomes of requests.post(GUMLOOP_WEBHOOK, ..., timeout=60).            *)
(*   Response        : a response came back, with a status and a body;     *)
(*   Timeout         : requests.exceptions.Timeout was raised;             *)
(*   ConnectionError : any other exception was raised (refused connection, *)
(*                     DNS failure, unset or invalid URL).                 *)
(* A body is text that is not JSON ("invalid"), JSON that is not an object *)
(* ("list"), or a JSON object ("dict") with or without a response key.     *)
(***************************************************************************)
Statuses == {200, 201, 500}

NoData == [response |-> ABSENT]

Bodies ==
    {[json |-> "invalid", data |-> NoData], [json |-> "list", data |-> NoData]}
    \cup {[json |-> "dict", data |-> [response |-> r]] : r \in {ABSENT, "hello"}}

ResponseOutcomes ==
    {[kind |-> "Response", status |-> s, json |-> b.json, data |-> b.data,
      detail |-> ""] : s \in Statuses, b \in Bodies}

TimeoutOutcomes ==
    {[kind |-> "Timeout", status |-> 0, json |-> "none", data |-> NoData,
      detail |-> "Read timed out."]}

TransportOutcomes ==
    {[kind |-> "ConnectionError", status |-> 0, json |-> "none", data |-> NoData,
      detail |-> d] : d \in {"Connection refused", "Invalid URL 'None'"}}

WebhookOutcomes == ResponseOutcomes \cup TimeoutOutcomes \cup TransportOutcomes

NoResponse ==
    [kind |-> "None", status |-> 0, json |-> "none", data |-> NoData, detail |-> ""]

(***************************************************************************)
(* Outcomes fixed ahead for a pair of runs of the same event (SpecPair):   *)
(* the webhook outcome and the outcome of the first and second say call.   *)
(***************************************************************************)
Oracles == [out : WebhookOutcomes, sayOk : [1..2 -> BOOLEAN]]

NoOracle == [out |-> NoResponse, sayOk |-> [i \in 1..2 |-> TRUE]]

VARIABLES
    pc,             \* pc[h]: where invocation h stands
    event,          \* event[h]: the event handed to invocation h
    response,       \* response[h]: what requests.post returned or raised
    exc,            \* exc[h]: str(e) of the exception bound by "except Exception as e"
    reactionCalls,  \* reactionCalls[h]: the reactions_add / reactions_remove calls made
    webhookReqs,    \* webhookReqs[h]: the JSON payloads handed to requests.post
    sayCalls,       \* sayCalls[h]: the say calls made, with their text and outcome
    oracle,         \* outcomes fixed ahead (SpecPair only)
    channelLog,     \* the invocations whose message the channels received, in order
    returnedBefore  \* returnedBefore[h]: the invocations that had ended when h began

vars == <<pc, event, response, exc, reactionCalls, webhookReqs, sayCalls, oracle,
          channelLog, returnedBefore>>

\* The points at which an invocation has returned or raised.
TerminalBeforeReply == {"filtered_out", "succeeded", "failed", "raised", "say_reply"}

Terminal == {"filtered_out", "succeeded", "failed", "raised"}

(***************************************************************************)
(* The handler's conditions, locals and formatted strings.                 *)
(***************************************************************************)

\* if event.get("bot_id"): a missing key and an empty string are both falsy.
OriginIsBotNever(ev) == FALSE

OriginIsBot(ev) == DictGet(ev, "bot_id", ABSENT) \notin {ABSENT, ""}

\* channel_id = event.get("channel")
ChannelId(ev) == DictGet(ev, "channel", ABSENT)

\* message_text = event.get("text", "")
MessageText(ev) == DictGet(ev, "text", "")

\* channel_id in CHANNELS
IsTrackedAny(channel_id) == TRUE

IsTracked(channel_id) == channel_id \in DOMAIN CHANNELS

\* The event of the invocation that began last.
LatestEvent ==
    event[CHOOSE g \in Handlers :
             /\ pc[g] # "idle"
             /\ \A k \in Handlers : pc[k] # "idle" => k <= g]

\* payload = {"channel_id": channel_id, "message_text": message_text}
PayloadOfLatest(channel_id, message_text) ==
    [channel_id |-> DictGet(LatestEvent, "channel", ABSENT),
     message_text |-> DictGet(LatestEvent, "text", "")]

Payload(channel_id, message_text) ==
    [channel_id |-> channel_id, message_text |-> message_text]

\* response.status_code == 200
StatusOkAny2xx(status) == status \in 200..299

StatusOk(status) == status = 200

\* ai_response = data.get("response", "Sorry, no response from AI.")
AiResponseNoDefault(data) == data["response"]

AiResponse(data) == DictGet(data, "response", "Sorry, no response from AI.")

\* The texts handed to say, as the fragments the f-strings join; each
\* leading emoji is written by its name.
ReplyMessage(ai_response) == <<ai_response>>

HttpErrorMessage(status) == <<":warning: Gumloop returned error: ", ToString(status)>>

TimeoutMessage == <<":alarm_clock: Request timed out - Gumloop took too long. Try again?">>

ExceptionMessageNoDetail(detail) == <<":x: Error connecting to AI">>

ExceptionMessage(detail) == <<":x: Error connecting to AI: ", detail>>

\* Which except clause of the try at lines 84-130 takes an exception raised
\* in the try body: "except requests.exceptions.Timeout" or "except Exception".
ExceptHandlerRetry(kind) == IF kind = "Timeout" THEN "forward" ELSE "say_exception"
ExceptHandlerGenericFirst(kind) == "say_exception"
ExceptHandlerCleanup(kind) == IF kind = "Timeout" THEN "remove_hourglass" ELSE "say_exception"
ExceptHandlerSilent(kind) == IF kind = "Timeout" THEN "say_timeout" ELSE "failed"

ExceptHandler(kind) == IF kind = "Timeout" THEN "say_timeout" ELSE "say_exception"

\* After the hourglass reactions_add: its exception is logged and swallowed.
AfterHourglassAddAbort(ok) == IF ok THEN "forward" ELSE "failed"

AfterHourglassAddPostsError(ok) == IF ok THEN "forward" ELSE "say_exception"

AfterHourglassAdd(ok) == "forward"

\* After reactions_remove in the success branch: an exception skips the
\* checkmark reactions_add (bare except: pass).
AfterHourglassRemoveNoCheckmark(ok) == "succeeded"

AfterHourglassRemoveAlways(ok) == "add_checkmark"
AfterHourglassRemoveUnguarded(ok) == IF ok THEN "add_checkmark" ELSE "say_exception"

AfterHourglassRemove(ok) == IF ok THEN "add_checkmark" ELSE "succeeded"

ReactionCall(ev, op, name, ok) ==
    [op |-> op, channel |-> ChannelId(ev), timestamp |-> ev.ts, name |-> name, ok |-> ok]

(***************************************************************************)
(* Initial state: no invocation is running.                                *)
(***************************************************************************)
Init ==
    /\ pc = [h \in Handlers |-> "idle"]
    /\ event = [h \in Handlers |-> NoEvent]
    /\ response = [h \in Handlers |-> NoResponse]
    /\ exc = [h \in Handlers |-> ""]
    /\ reactionCalls = [h \in Handlers |-> <<>>]
    /\ webhookReqs = [h \in Handlers |-> <<>>]
    /\ sayCalls = [h \in Handlers |-> <<>>]
    /\ oracle = NoOracle
    /\ channelLog = <<>>
    /\ returnedBefore = [h \in Handlers |-> {}]

(***************************************************************************)
(* The event source adapter hands event ev to a new invocation in slot h.  *)
(* Events are delivered one at a time: no invocation is running, and the   *)
(* records of the invocations that returned are dropped.                   *)
(***************************************************************************)
Dispatch(h, ev) ==
    /\ \A g \in Handlers : pc[g] \in Terminal \cup {"idle"}
    /\ pc' = [g \in Handlers |-> IF g = h THEN "received" ELSE "idle"]
    /\ event' = [g \in Handlers |-> IF g = h THEN ev ELSE NoEvent]
    /\ response' = [g \in Handlers |-> NoResponse]
    /\ exc' = [g \in Handlers |-> ""]
    /\ reactionCalls' = [g \in Handlers |-> <<>>]
    /\ webhookReqs' = [g \in Handlers |-> <<>>]
    /\ sayCalls' = [g \in Handlers |-> <<>>]
    /\ oracle' = NoOracle
    /\ channelLog' = <<>>
    /\ returnedBefore' = [g \in Handlers |-> {}]

\* Lines 59-71: the two early returns.
Filter(h) ==
    /\ pc[h] = "received"
    /\ pc' = [pc EXCEPT ![h] =
                IF OriginIsBot(event[h]) THEN "filtered_out"
                ELSE IF ~IsTracked(ChannelId(event[h])) THEN "filtered_out"
                ELSE "annotate"]
    /\ UNCHANGED <<event, response, exc, reactionCalls, webhookReqs, sayCalls, oracle,
                   channelLog, returnedBefore>>

\* Lines 73-81: reactions_add(hourglass) inside try / except Exception.
AddHourglass(h, ok) ==
    /\ pc[h] = "annotate"
    /\ reactionCalls' = [reactionCalls EXCEPT ![h] =
                            Append(@, ReactionCall(event[h], "add", HOURGLASS, ok))]
    /\ pc' = [pc EXCEPT ![h] = AfterHourglassAdd(ok)]
    /\ UNCHANGED <<event, response, exc, webhookReqs, sayCalls, oracle,
                   channelLog, returnedBefore>>

\* Lines 84-95: build the payload and call requests.post once.
WebhookPost(h, out) ==
    /\ pc[h] = "forward"
    /\ webhookReqs' = [webhookReqs EXCEPT ![h] =
                          Append(@, Payload(ChannelId(event[h]), MessageText(event[h])))]
    /\ response' = [response EXCEPT ![h] = out]
    /\ exc' = [exc EXCEPT ![h] = IF out.kind = "ConnectionError" THEN out.detail ELSE @]
    /\ pc' = [pc EXCEPT ![h] =
                IF out.kind = "Response" THEN "check_status" ELSE ExceptHandler(out.kind)]
    /\ UNCHANGED <<event, reactionCalls, sayCalls, oracle, channelLog, returnedBefore>>

\* Lines 97-99 and 120: the status test, response.json() and data.get.
\* response.json() raises on a body that is not JSON; data.get raises on
\* JSON that is not an object.
CheckStatus(h) ==
    /\ pc[h] = "check_status"
    /\ IF StatusOk(response[h].status)
       THEN IF response[h].json = "dict"
            THEN /\ pc' = [pc EXCEPT ![h] = "say_reply"]
                 /\ exc' = exc
            ELSE /\ pc' = [pc EXCEPT ![h] =
                             ExceptHandler(IF response[h].json = "invalid"
                                           THEN "JSONDecodeError" ELSE "AttributeError")]
                 /\ exc' = [exc EXCEPT ![h] =
                             IF response[h].json = "invalid"
                             THEN "Expecting value: line 1 column 1 (char 0)"
                             ELSE "'list' object has no attribute 'get'"]
       ELSE /\ pc' = [pc EXCEPT ![h] = "say_http_error"]
            /\ exc' = exc
    /\ UNCHANGED <<event, response, reactionCalls, webhookReqs, sayCalls, oracle,
                   channelLog, returnedBefore>>

\* Line 102: say(ai_response); an exception goes to the except clauses.
SayReply(h, ok) ==
    /\ pc[h] = "say_reply"
    /\ sayCalls' = [sayCalls EXCEPT ![h] =
                       Append(@, [text |-> ReplyMessage(AiResponse(response[h].data)),
                                  ok |-> ok])]
    /\ exc' = [exc EXCEPT ![h] = IF ok THEN @ ELSE "SlackApiError"]
    /\ pc' = [pc EXCEPT ![h] =
                IF ok THEN "remove_hourglass" ELSE ExceptHandler("SlackApiError")]
    /\ channelLog' = IF ok THEN Append(channelLog, h) ELSE channelLog
    /\ UNCHANGED <<event, response, reactionCalls, webhookReqs, oracle, returnedBefore>>

\* Lines 105-110: reactions_remove(hourglass) inside try / bare except.
RemoveHourglass(h, ok) ==
    /\ pc[h] = "remove_hourglass"
    /\ reactionCalls' = [reactionCalls EXCEPT ![h] =
                            Append(@, ReactionCall(event[h], "remove", HOURGLASS, ok))]
    /\ pc' = [pc EXCEPT ![h] = AfterHourglassRemove(ok)]
    /\ UNCHANGED <<event, response, exc, webhookReqs, sayCalls, oracle,
                   channelLog, returnedBefore>>

\* Lines 111-119: reactions_add(checkmark) inside the same try, then return.
AddCheckmark(h, ok) ==
    /\ pc[h] = "add_checkmark"
    /\ reactionCalls' = [reactionCalls EXCEPT ![h] =
                            Append(@, ReactionCall(event[h], "add", CHECKMARK, ok))]
    /\ pc' = [pc EXCEPT ![h] = "succeeded"]
    /\ UNCHANGED <<event, response, exc, webhookReqs, sayCalls, oracle,
                   channelLog, returnedBefore>>

\* Lines 120-122: say the status code; an exception goes to the except clauses.
SayHttpError(h, ok) ==
    /\ pc[h] = "say_http_error"
    /\ sayCalls' = [sayCalls EXCEPT ![h] =
                       Append(@, [text |-> HttpErrorMessage(response[h].status),
                                  ok |-> ok])]
    /\ exc' = [exc EXCEPT ![h] = IF ok THEN @ ELSE "SlackApiError"]
    /\ pc' = [pc EXCEPT ![h] = IF ok THEN "failed" ELSE ExceptHandler("SlackApiError")]
    /\ channelLog' = IF ok THEN Append(channelLog, h) ELSE channelLog
    /\ UNCHANGED <<event, response, reactionCalls, webhookReqs, oracle, returnedBefore>>

\* Lines 124-126: the Timeout clause; an exception raised by say inside an
\* except clause is caught by no clause and leaves handle_message.
SayTimeout(h, ok) ==
    /\ pc[h] = "say_timeout"
    /\ sayCalls' = [sayCalls EXCEPT ![h] = Append(@, [text |-> TimeoutMessage, ok |-> ok])]
    /\ pc' = [pc EXCEPT ![h] = IF ok THEN "failed" ELSE "raised"]
    /\ channelLog' = IF ok THEN Append(channelLog, h) ELSE channelLog
    /\ UNCHANGED <<event, response, exc, reactionCalls, webhookReqs, oracle, returnedBefore>>

\* Lines 128-130: the generic clause; as above, its say is not guarded.
SayException(h, ok) ==
    /\ pc[h] = "say_exception"
    /\ sayCalls' = [sayCalls EXCEPT ![h] =
                       Append(@, [text |-> ExceptionMessage(exc[h]), ok |-> ok])]
    /\ pc' = [pc EXCEPT ![h] = IF ok THEN "failed" ELSE "raised"]
    /\ channelLog' = IF ok THEN Append(channelLog, h) ELSE channelLog
    /\ UNCHANGED <<event, response, exc, reactionCalls, webhookReqs, oracle, returnedBefore>>

Next ==
    \E h \in Handlers :
        \/ \E ev \in Events : Dispatch(h, ev)
        \/ Filter(h)
        \/ \E ok \in BOOLEAN : AddHourglass(h, ok)
        \/ \E out \in WebhookOutcomes : WebhookPost(h, out)
        \/ CheckStatus(h)
        \/ \E ok \in BOOLEAN : SayReply(h, ok)
        \/ \E ok \in BOOLEAN : RemoveHourglass(h, ok)
        \/ \E ok \in BOOLEAN : AddCheckmark(h, ok)
        \/ \E ok \in BOOLEAN : SayHttpError(h, ok)
        \/ \E ok \in BOOLEAN : SayTimeout(h, ok)
        \/ \E ok \in BOOLEAN : SayException(h, ok)

Spec == Init /\ [][Next]_vars

(***************************************************************************)
(* Two runs of the handler on the same event, each with the webhook        *)
(* outcome and the say outcomes fixed ahead by the oracle and the outcome  *)
(* of every reaction call left free in each run.                           *)
(***************************************************************************)
\* The two runs a comparison of runs needs.
PairRuns == {1, 2}

DispatchPair(ev, orc) ==
    /\ \A g \in Handlers : pc[g] = "idle"
    /\ pc' = [g \in Handlers |-> IF g \in PairRuns THEN "received" ELSE "idle"]
    /\ event' = [g \in Handlers |-> IF g \in PairRuns THEN ev ELSE NoEvent]
    /\ response' = [g \in Handlers |-> NoResponse]
    /\ exc' = [g \in Handlers |-> ""]
    /\ reactionCalls' = [g \in Handlers |-> <<>>]
    /\ webhookReqs' = [g \in Handlers |-> <<>>]
    /\ sayCalls' = [g \in Handlers |-> <<>>]
    /\ oracle' = orc
    /\ UNCHANGED <<channelLog, returnedBefore>>

\* The outcome the oracle fixes for the next say call of run h.
OracleSayOk(h) == oracle.sayOk[IF Len(sayCalls[h]) < 2 THEN Len(sayCalls[h]) + 1 ELSE 2]

NextPair ==
    \/ \E ev \in Events, orc \in Oracles : DispatchPair(ev, orc)
    \/ \E h \in Handlers :
        \/ Filter(h)
        \/ \E ok \in BOOLEAN : AddHourglass(h, ok)
        \/ WebhookPost(h, oracle.out)
        \/ CheckStatus(h)
        \/ SayReply(h, OracleSayOk(h))
        \/ \E ok \in BOOLEAN : RemoveHourglass(h, ok)
        \/ \E ok \in BOOLEAN : AddCheckmark(h, ok)
        \/ SayHttpError(h, OracleSayOk(h))
        \/ SayTimeout(h, OracleSayOk(h))
        \/ SayException(h, OracleSayOk(h))

SpecPair == Init /\ [][NextPair]_vars

(***************************************************************************)
(* Concurrent dispatch.  The event source adapter may hand an event to a   *)
(* new invocation while earlier invocations are still running; the         *)
(* invocations then take their steps in any interleaving.  Slots are       *)
(* taken in the order the invocations begin and each is used once, so g    *)
(* began before h exactly when g < h.  The events and the call outcomes    *)
(* are drawn from smaller sets than under Spec; the hourglass add and the  *)
(* checkmark add return.                                                   *)
(***************************************************************************)
ConcEvents ==
    {ev \in Events : /\ ev.channel \in {"C09NEFLB30C", "C09NEFNNXD2"}
                     /\ \/ ev.bot_id = ABSENT /\ ev.text = "hello"
                        \/ ev.bot_id # ABSENT /\ ev.channel = "C09NEFLB30C" /\ ev.text = ""}

ConcOutcomes ==
    {out \in WebhookOutcomes :
        \/ out.kind = "Timeout"
        \/ /\ out.kind = "Response"
           /\ out.json = "dict"
           /\ \/ out.status = 200 /\ out.data.response = "hello"
              \/ out.status = 500 /\ out.data.response = ABSENT}

DispatchConc(h, ev) ==
    /\ pc[h] = "idle"
    /\ \A g \in Handlers : g < h => pc[g] # "idle"
    /\ pc' = [pc EXCEPT ![h] = "received"]
    /\ event' = [event EXCEPT ![h] = ev]
    /\ returnedBefore' = [returnedBefore EXCEPT ![h] =
                             {g \in Handlers : pc[g] \in Terminal}]
    /\ UNCHANGED <<response, exc, reactionCalls, webhookReqs, sayCalls, oracle, channelLog>>

\* One step of invocation h under concurrent dispatch.
StepConc(h) ==
    \/ Filter(h)
    \/ AddHourglass(h, TRUE)
    \/ \E out \in ConcOutcomes : WebhookPost(h, out)
    \/ CheckStatus(h)
    \/ \E ok \in BOOLEAN : SayReply(h, ok)
    \/ \E ok \in BOOLEAN : RemoveHourglass(h, ok)
    \/ AddCheckmark(h, TRUE)
    \/ \E ok \in BOOLEAN : SayHttpError(h, ok)
    \/ \E ok \in BOOLEAN : SayTimeout(h, ok)
    \/ \E ok \in BOOLEAN : SayException(h, ok)

NextConc ==
    \E h \in Handlers :
        \/ \E ev \in ConcEvents : DispatchConc(h, ev)
        \/ StepConc(h)

\* Every invocation that can take a step eventually takes one: its thread
\* is scheduled, and each external call returns or raises (requests.post
\* within its timeout of 60 seconds).
FairConc == \A h \in Handlers : WF_vars(StepConc(h))

SpecConc == Init /\ [][NextConc]_vars

SpecConcFair == SpecConc /\ FairConc

(***************************************************************************)
(* Vocabulary of the properties.                                           *)
(***************************************************************************)

\* Invocation h has returned or raised.
Done(h) == pc[h] \in Terminal

\* The event of invocation h passes the filter: no bot_id, tracked channel.
PassesFilter(h) ==
    /\ pc[h] # "idle"
    /\ event[h].bot_id \in {ABSENT, ""}
    /\ event[h].channel \in DOMAIN CHANNELS

\* Invocation h made no external call at all.
NoEffect(h) ==
    /\ reactionCalls[h] = <<>>
    /\ webhookReqs[h] = <<>>
    /\ sayCalls[h] = <<>>

\* The texts of the messages the channel received from invocation h.
Posted(h) ==
    LET good == SelectSeq(sayCalls[h], LAMBDA c : c.ok)
    IN  [i \in 1..Len(good) |-> good[i].text]

\* A message holds the fragment frag.
Contains(msg, frag) == \E i \in 1..Len(msg) : msg[i] = frag

\* The reactions a message carries after the calls, those that failed
\* leaving it as it was.
RECURSIVE ReactionsAfter(_)
ReactionsAfter(calls) ==
    IF calls = <<>> THEN {}
    ELSE LET before == ReactionsAfter(SubSeq(calls, 1, Len(calls) - 1))
             c == calls[Len(calls)]
         IN  IF ~c.ok THEN before
             ELSE IF c.op = "add" THEN before \cup {c.name}
             ELSE before \ {c.name}

\* Some call of invocation h removes the hourglass or adds the checkmark.
CleanupAttempted(h) ==
    \E i \in 1..Len(reactionCalls[h]) :
        \/ reactionCalls[h][i].op = "remove"
        \/ reactionCalls[h][i].name = "white_check_mark"

\* The webhook of invocation h answered with this status and a JSON object.
AnsweredObject(h, status) ==
    /\ response[h].kind = "Response"
    /\ response[h].status = status
    /\ response[h].json = "dict"

(***************************************************************************)
(* C1.  An event whose bot_id is set produces no reaction call, no webhook *)
(* request and no message, whatever its channel and text.                  *)
(***************************************************************************)
C1_BotEventNoEffect ==
    \A h \in Handlers :
        (pc[h] # "idle" /\ event[h].bot_id \notin {ABSENT, ""}) => NoEffect(h)

C1_Witness ==
    \E h \in Handlers :
        /\ pc[h] = "filtered_out"
        /\ event[h].bot_id = "B0BOT"
        /\ event[h].channel = "C09NEFLB30C"
        /\ event[h].text = "hello"

(***************************************************************************)
(* C2.  An event whose channel is not a key of CHANNELS produces no        *)
(* reaction call, no webhook request and no message.                       *)
(***************************************************************************)
C2_UntrackedChannelNoEffect ==
    \A h \in Handlers :
        (pc[h] # "idle" /\ event[h].channel \notin DOMAIN CHANNELS) => NoEffect(h)

C2_Witness ==
    \E h \in Handlers :
        /\ pc[h] = "filtered_out"
        /\ event[h].bot_id = ABSENT
        /\ event[h].channel = "C0UNTRACKED"

(***************************************************************************)
(* C3.  An event that passes the filter gets exactly one webhook request,  *)
(* carrying the event's channel and text (the empty string when the event  *)
(* has no text), whether the hourglass add succeeded or failed; no         *)
(* invocation ever issues a second request, whatever the first one's       *)
(* outcome.                                                                *)
(***************************************************************************)
C3_ExactlyOneWebhookRequest ==
    \A h \in Handlers :
        /\ Len(webhookReqs[h]) <= 1
        /\ (PassesFilter(h) /\ pc[h] \notin {"received", "annotate", "forward"})
              => webhookReqs[h] =
                    <<[channel_id |-> event[h].channel,
                       message_text |-> IF event[h].text = ABSENT THEN ""
                                        ELSE event[h].text]>>

C3_Witness ==
    \E h \in Handlers :
        /\ Done(h)
        /\ PassesFilter(h)
        /\ event[h].text = "hello"
        /\ response[h].kind = "Timeout"
        /\ ~reactionCalls[h][1].ok
        /\ Len(webhookReqs[h]) = 1

(***************************************************************************)
(* C4.  When the webhook answers 200 with a JSON object whose response     *)
(* field is r, the handler posts r; once that post has gone through, r is  *)
(* the only message the channel receives, and afterwards the hourglass     *)
(* removal is attempted and, when it succeeds, the checkmark add; when     *)
(* both succeed the message carries the checkmark and no hourglass.  No    *)
(* cleanup is attempted before the reply is posted, and a failed reaction  *)
(* call changes nothing of this.                                           *)
(***************************************************************************)
C4_ReplyPostedThenCheckmark ==
    \A h \in Handlers :
        (AnsweredObject(h, 200) /\ response[h].data.response # ABSENT) =>
            /\ Done(h) => sayCalls[h] # <<>>
            /\ sayCalls[h] = <<>> => ~CleanupAttempted(h)
            /\ sayCalls[h] # <<>> =>
                  /\ sayCalls[h][1].text = <<response[h].data.response>>
                  /\ sayCalls[h][1].ok =>
                        /\ Posted(h) = << <<response[h].data.response>> >>
                        /\ Done(h) =>
                              /\ pc[h] = "succeeded"
                              /\ Len(reactionCalls[h]) >= 2
                              /\ reactionCalls[h][2].op = "remove"
                              /\ reactionCalls[h][2].name = "hourglass_flowing_sand"
                              /\ reactionCalls[h][2].ok =>
                                    /\ Len(reactionCalls[h]) = 3
                                    /\ reactionCalls[h][3].op = "add"
                                    /\ reactionCalls[h][3].name = "white_check_mark"
                                    /\ reactionCalls[h][3].ok =>
                                          ReactionsAfter(reactionCalls[h])
                                             = {"white_check_mark"}

C4_Witness ==
    \E h \in Handlers :
        /\ pc[h] = "succeeded"
        /\ Posted(h) = << <<"hello">> >>
        /\ Len(reactionCalls[h]) = 3
        /\ \A i \in 1..3 : reactionCalls[h][i].ok
        /\ ReactionsAfter(reactionCalls[h]) = {"white_check_mark"}

(***************************************************************************)
(* C5.  When the webhook answers 200 with a JSON object that has no        *)
(* response key, the reply the handler posts is the fallback text.         *)
(***************************************************************************)
C5_FallbackReply ==
    \A h \in Handlers :
        (AnsweredObject(h, 200) /\ response[h].data.response = ABSENT) =>
            /\ Done(h) => sayCalls[h] # <<>>
            /\ sayCalls[h] # <<>> =>
                  /\ sayCalls[h][1].text = <<"Sorry, no response from AI.">>
                  /\ sayCalls[h][1].ok =>
                        Posted(h) = << <<"Sorry, no response from AI.">> >>

C5_Witness ==
    \E h \in Handlers :
        /\ pc[h] = "succeeded"
        /\ response[h].data.response = ABSENT
        /\ Posted(h) = << <<"Sorry, no response from AI.">> >>

(***************************************************************************)
(* C6.  When the webhook call times out, the one message the handler       *)
(* posts is the timeout notice, and neither the hourglass removal nor the  *)
(* checkmark add is attempted.                                             *)
(***************************************************************************)
C6_TimeoutNotice ==
    \A h \in Handlers :
        response[h].kind = "Timeout" =>
            /\ ~CleanupAttempted(h)
            /\ Len(sayCalls[h]) <= 1
            /\ Done(h) =>
                  /\ Len(sayCalls[h]) = 1
                  /\ sayCalls[h][1].text =
                        <<":alarm_clock: Request timed out - Gumloop took too long. Try again?">>
                  /\ sayCalls[h][1].ok => Posted(h) = <<sayCalls[h][1].text>>

C6_Witness ==
    \E h \in Handlers :
        /\ pc[h] = "failed"
        /\ response[h].kind = "Timeout"
        /\ reactionCalls[h][1].ok
        /\ Len(Posted(h)) = 1

(***************************************************************************)
(* C7.  When the webhook answers with a status other than 200, the message *)
(* the handler posts holds that status code, the body's response text is   *)
(* never posted, and no checkmark is added.                                *)
(***************************************************************************)
C7_HttpErrorNotice ==
    \A h \in Handlers :
        (response[h].kind = "Response" /\ response[h].status # 200) =>
            /\ ~CleanupAttempted(h)
            /\ \A i \in 1..Len(sayCalls[h]) :
                  sayCalls[h][i].text # <<response[h].data.response>>
            /\ Done(h) => sayCalls[h] # <<>>
            /\ sayCalls[h] # <<>> =>
                  /\ Contains(sayCalls[h][1].text, ToString(response[h].status))
                  /\ sayCalls[h][1].ok => Posted(h) = <<sayCalls[h][1].text>>

C7_Witness ==
    \E h \in Handlers :
        /\ pc[h] = "failed"
        /\ response[h].status = 500
        /\ response[h].data.response = "hello"
        /\ Len(Posted(h)) = 1
        /\ Contains(Posted(h)[1], "500")

(***************************************************************************)
(* C8 as stated.  Every invocation that handled an event passing the       *)
(* filter ends with at least one message posted to the channel.            *)
(***************************************************************************)
C8_AlwaysVisibleMessage ==
    \A h \in Handlers : (Done(h) /\ PassesFilter(h)) => Posted(h) # <<>>

(***************************************************************************)
(* C8 as amended.  Every invocation that handled an event passing the      *)
(* filter ends having attempted at least one post, and the channel has     *)
(* received a message exactly when the last attempt succeeded: a post that *)
(* fails in the 200 or non-200 branch is followed by one attempt to post   *)
(* the generic error message, a post that fails in an except clause by     *)
(* nothing.                                                                *)
(***************************************************************************)
C8_MessageUnlessLastPostFails ==
    \A h \in Handlers :
        (Done(h) /\ PassesFilter(h)) =>
            /\ Len(sayCalls[h]) >= 1
            /\ (Posted(h) # <<>>) <=> sayCalls[h][Len(sayCalls[h])].ok
            /\ (Len(sayCalls[h]) >= 2) =>
                  /\ ~sayCalls[h][1].ok
                  /\ response[h].kind = "Response"
                  /\ sayCalls[h][2].text[1] = ":x: Error connecting to AI: "

C8_Witness ==
    \E h \in Handlers :
        /\ pc[h] = "failed"
        /\ Len(sayCalls[h]) = 2
        /\ ~sayCalls[h][1].ok
        /\ sayCalls[h][2].ok
        /\ Len(Posted(h)) = 1

(***************************************************************************)
(* C9 as stated.  No failure of an external call leaves handle_message:    *)
(* every invocation returns normally.                                      *)
(***************************************************************************)
C9_NothingEscapes ==
    \A h \in Handlers : pc[h] # "raised"

(***************************************************************************)
(* C10.  Runs of the handler on the same event, with the same webhook      *)
(* outcome and the same say outcomes, issue the same webhook request and   *)
(* the same say calls (so post the same messages) and end the same way,    *)
(* whatever the outcomes of their reaction calls.                          *)
(***************************************************************************)
C10_AnnotationIndependence ==
    \A g, h \in Handlers :
        (Done(g) /\ Done(h)) =>
            /\ sayCalls[g] = sayCalls[h]
            /\ webhookReqs[g] = webhookReqs[h]
            /\ pc[g] = pc[h]

C10_Witness ==
    \E g, h \in Handlers :
        /\ pc[g] = "succeeded"
        /\ pc[h] = "succeeded"
        /\ \A i \in 1..Len(reactionCalls[g]) : reactionCalls[g][i].ok
        /\ ~reactionCalls[h][1].ok
        /\ ~reactionCalls[h][2].ok
        /\ Posted(h) = << <<"hello">> >>

(***************************************************************************)
(* C12.  When the webhook call fails with anything but a timeout or a      *)
(* non-200 status (requests.post raises another exception, or the body of  *)
(* a 200 response is not JSON or not a JSON object), the one message the   *)
(* handler posts is the generic error message holding the error detail;    *)
(* the webhook is not called again and neither the hourglass removal nor   *)
(* the checkmark add is attempted.                                         *)
(***************************************************************************)
OtherWebhookFailure(h) ==
    \/ response[h].kind = "ConnectionError"
    \/ /\ response[h].kind = "Response"
       /\ response[h].status = 200
       /\ response[h].json # "dict"

ErrorDetail(h) ==
    IF response[h].kind = "ConnectionError" THEN response[h].detail
    ELSE IF response[h].json = "invalid" THEN "Expecting value: line 1 column 1 (char 0)"
    ELSE "'list' object has no attribute 'get'"

C12_GenericErrorNotice ==
    \A h \in Handlers :
        OtherWebhookFailure(h) =>
            /\ ~CleanupAttempted(h)
            /\ Len(webhookReqs[h]) = 1
            /\ Len(sayCalls[h]) <= 1
            /\ Done(h) =>
                  /\ Len(sayCalls[h]) = 1
                  /\ sayCalls[h][1].text = <<":x: Error connecting to AI: ", ErrorDetail(h)>>
                  /\ sayCalls[h][1].ok => Posted(h) = <<sayCalls[h][1].text>>

C12_Witness ==
    \E h \in Handlers :
        /\ pc[h] = "failed"
        /\ response[h].kind = "Response"
        /\ response[h].status = 200
        /\ response[h].json = "invalid"
        /\ Posted(h) =
              << <<":x: Error connecting to AI: ",
                   "Expecting value: line 1 column 1 (char 0)">> >>

(***************************************************************************)
(* C13.  The effects of one invocation come in a fixed order.  A webhook   *)
(* request has been issued only after the hourglass add was attempted; a   *)
(* message has been posted (or its post attempted) only after the webhook  *)
(* call completed; the hourglass removal or the checkmark add has been     *)
(* attempted only after the reply was posted.  An invocation that filtered *)
(* its event out has made no external call.                                *)
(***************************************************************************)
C13_EffectOrder ==
    \A h \in Handlers :
        /\ pc[h] = "filtered_out" => NoEffect(h)
        /\ webhookReqs[h] # <<>> =>
              /\ reactionCalls[h] # <<>>
              /\ reactionCalls[h][1].op = "add"
              /\ reactionCalls[h][1].name = "hourglass_flowing_sand"
        /\ (response[h].kind # "None") <=> (webhookReqs[h] # <<>>)
        /\ sayCalls[h] # <<>> => response[h].kind # "None"
        /\ Len(reactionCalls[h]) >= 2 =>
              /\ sayCalls[h] # <<>>
              /\ sayCalls[h][1].ok
              /\ reactionCalls[h][2].op = "remove"
              /\ reactionCalls[h][2].name = "hourglass_flowing_sand"
        /\ Len(reactionCalls[h]) >= 3 =>
              /\ reactionCalls[h][3].op = "add"
              /\ reactionCalls[h][3].name = "white_check_mark"
        /\ Len(reactionCalls[h]) <= 3

C13_Witness ==
    \E h \in Handlers :
        /\ pc[h] = "succeeded"
        /\ event[h].text = ""
        /\ Len(reactionCalls[h]) = 3
        /\ Len(webhookReqs[h]) = 1
        /\ Len(Posted(h)) = 1

(***************************************************************************)
(* C16.  The checkmark add is attempted only right after a hourglass       *)
(* removal that succeeded: when reactions_remove raises, the invocation    *)
(* ends with the reply posted and no checkmark add attempted.              *)
(***************************************************************************)
C16_CheckmarkOnlyAfterRemoval ==
    \A h \in Handlers :
        /\ \A i \in 1..Len(reactionCalls[h]) :
              reactionCalls[h][i].name = "white_check_mark" =>
                  /\ i > 1
                  /\ reactionCalls[h][i - 1].op = "remove"
                  /\ reactionCalls[h][i - 1].name = "hourglass_flowing_sand"
                  /\ reactionCalls[h][i - 1].ok
        /\ \A i \in 1..Len(reactionCalls[h]) :
              (reactionCalls[h][i].op = "remove" /\ ~reactionCalls[h][i].ok) =>
                  /\ Len(reactionCalls[h]) = i
                  /\ pc[h] = "succeeded"
                  /\ Len(Posted(h)) = 1
        /\ (pc[h] = "succeeded" /\ reactionCalls[h][2].ok) => Len(reactionCalls[h]) = 3

C16_Witness ==
    \E h \in Handlers :
        /\ pc[h] = "succeeded"
        /\ Len(reactionCalls[h]) = 2
        /\ ~reactionCalls[h][1].ok
        /\ ~reactionCalls[h][2].ok
        /\ Posted(h) = << <<"hello">> >>
        /\ ReactionsAfter(reactionCalls[h]) = {}

(***************************************************************************)
(* C17.  The hourglass removal or the checkmark add is attempted only      *)
(* after the webhook answered 200 with a JSON object and the reply was     *)
(* posted; a message that carries the checkmark has its reply posted; an   *)
(* invocation that ended in a failed resolution made no removal, so a      *)
(* hourglass it added stays.                                               *)
(***************************************************************************)
C17_CleanupOnlyAfterReply ==
    \A h \in Handlers :
        /\ CleanupAttempted(h) =>
              /\ AnsweredObject(h, 200)
              /\ sayCalls[h] # <<>>
              /\ sayCalls[h][1].ok
        /\ "white_check_mark" \in ReactionsAfter(reactionCalls[h]) =>
              /\ AnsweredObject(h, 200)
              /\ Len(Posted(h)) = 1
              /\ Posted(h)[1][1] \in {response[h].data.response,
                                      "Sorry, no response from AI."}
        /\ pc[h] \in {"failed", "raised"} =>
              /\ \A i \in 1..Len(reactionCalls[h]) : reactionCalls[h][i].op # "remove"
              /\ reactionCalls[h][1].ok =>
                    "hourglass_flowing_sand" \in ReactionsAfter(reactionCalls[h])

C17_Witness ==
    \E h \in Handlers :
        /\ pc[h] = "raised"
        /\ AnsweredObject(h, 200)
        /\ reactionCalls[h][1].ok
        /\ ReactionsAfter(reactionCalls[h]) = {"hourglass_flowing_sand"}
        /\ Posted(h) = <<>>

(***************************************************************************)
(* C18.  An invocation posts at most one message and attempts at most two  *)
(* posts.  A second attempt is the generic error message, made only after  *)
(* the first attempt (the reply of the 200 branch or the status message of *)
(* the non-200 branch) raised; so no invocation posts both a reply and an  *)
(* error message.                                                          *)
(***************************************************************************)
C18_AtMostOnePost ==
    \A h \in Handlers :
        /\ Len(Posted(h)) <= 1
        /\ Len(sayCalls[h]) <= 2
        /\ Len(sayCalls[h]) = 2 =>
              /\ ~sayCalls[h][1].ok
              /\ response[h].kind = "Response"
              /\ \/ /\ AnsweredObject(h, 200)
                    /\ sayCalls[h][1].text[1] \in {response[h].data.response,
                                                   "Sorry, no response from AI."}
                 \/ /\ response[h].status # 200
                    /\ sayCalls[h][1].text[1] = ":warning: Gumloop returned error: "
              /\ sayCalls[h][2].text = <<":x: Error connecting to AI: ", "SlackApiError">>

C18_Witness ==
    \E h \in Handlers :
        /\ pc[h] = "failed"
        /\ response[h].status = 500
        /\ Len(sayCalls[h]) = 2
        /\ ~sayCalls[h][1].ok
        /\ sayCalls[h][2].ok
        /\ reactionCalls[h][1].ok
        /\ Posted(h) = << <<":x: Error connecting to AI: ", "SlackApiError">> >>

(***************************************************************************)
(* Vocabulary of the properties under concurrent dispatch.                 *)
(***************************************************************************)

\* The channel has received a message of invocation h.
InLog(h) == \E i \in 1..Len(channelLog) : channelLog[i] = h

\* The place of the message of invocation h among the messages received.
LogIndex(h) == CHOOSE i \in 1..Len(channelLog) : channelLog[i] = h

\* Invocations g and h handle events of the same tracked channel.
SameChannel(g, h) ==
    /\ PassesFilter(g)
    /\ PassesFilter(h)
    /\ event[g].channel = event[h].channel

\* The reply of invocation h (the text of a 200 answer) has been posted.
ReplyPosted(h) ==
    /\ AnsweredObject(h, 200)
    /\ sayCalls[h] # <<>>
    /\ sayCalls[h][1].ok

(***************************************************************************)
(* C11 as stated.  Of two invocations on events of the same channel, the   *)
(* one that began first has its reply posted first, in every interleaving. *)
(***************************************************************************)
C11_RepliesInStartOrder ==
    \A g, h \in Handlers :
        (g < h /\ SameChannel(g, h) /\ ReplyPosted(g) /\ ReplyPosted(h)) =>
            LogIndex(g) < LogIndex(h)

(***************************************************************************)
(* C11 as amended.  Of two invocations on events of the same channel, if   *)
(* the first had ended when the second began (as when events are handled   *)
(* one at a time), every message of the first is posted before every       *)
(* message of the second.                                                  *)
(***************************************************************************)
C11_RepliesInOrderWhenNotOverlapping ==
    \A g, h \in Handlers :
        (g \in returnedBefore[h] /\ SameChannel(g, h) /\ InLog(h)) =>
            /\ Done(g)
            /\ InLog(g) => LogIndex(g) < LogIndex(h)
            /\ InLog(g) <=> Posted(g) # <<>>

C11_Witness ==
    \E g, h \in Handlers :
        /\ g \in returnedBefore[h]
        /\ SameChannel(g, h)
        /\ ReplyPosted(g)
        /\ ReplyPosted(h)
        /\ LogIndex(g) < LogIndex(h)

(***************************************************************************)
(* C14 as stated.  An invocation that has begun and can take no further    *)
(* step has ended in one of the states filtered-out, succeeded or failed.  *)
(***************************************************************************)
C14_EndsFilteredSucceededOrFailed ==
    \A h \in Handlers :
        (pc[h] # "idle" /\ ~ENABLED StepConc(h)) =>
            pc[h] \in {"filtered_out", "succeeded", "failed"}

(***************************************************************************)
(* C14, the part that holds.  Every invocation ends, whatever the other    *)
(* invocations do: an invocation that has not ended can always take its    *)
(* next step by itself, it makes at most three reaction calls, one webhook *)
(* request and two posts, and once begun it reaches filtered-out,          *)
(* succeeded or failed, or leaves by the exception of a post that failed   *)
(* inside an except clause.                                                *)
(***************************************************************************)
C14_EveryInvocationTerminates ==
    /\ [](\A h \in Handlers :
            /\ pc[h] \notin {"idle", "filtered_out", "succeeded", "failed", "raised"}
                  => ENABLED StepConc(h)
            /\ Len(reactionCalls[h]) <= 3
            /\ Len(webhookReqs[h]) <= 1
            /\ Len(sayCalls[h]) <= 2)
    /\ \A h \in Handlers :
          (pc[h] = "received") ~>
              (pc[h] \in {"filtered_out", "succeeded", "failed", "raised"})

C14_Witness ==
    /\ \A h \in Handlers : Done(h)
    /\ \E h \in Handlers : pc[h] = "succeeded"
    /\ \E h \in Handlers : pc[h] = "filtered_out"

(***************************************************************************)
(* C15.  Concurrent invocations do not interfere.  In every interleaving   *)
(* the calls of an invocation are those its own event and the outcomes of  *)
(* its own calls give: its reactions go to its event's channel and         *)
(* timestamp, its webhook request carries its event's channel and text,    *)
(* and its messages follow from its own webhook outcome.  A step of one    *)
(* invocation changes nothing of another invocation.                       *)
(***************************************************************************)
OwnCalls(h) ==
    /\ \A i \in 1..Len(reactionCalls[h]) :
          /\ reactionCalls[h][i].channel = event[h].channel
          /\ reactionCalls[h][i].timestamp = event[h].ts
    /\ \A i \in 1..Len(webhookReqs[h]) :
          webhookReqs[h][i] =
             [channel_id |-> event[h].channel,
              message_text |-> IF event[h].text = ABSENT THEN "" ELSE event[h].text]
    /\ ~PassesFilter(h) => NoEffect(h)
    /\ sayCalls[h] # <<>> =>
          sayCalls[h][1].text =
             IF response[h].kind = "Timeout"
             THEN <<":alarm_clock: Request timed out - Gumloop took too long. Try again?">>
             ELSE IF response[h].status = 200
             THEN <<IF response[h].data.response = ABSENT
                    THEN "Sorry, no response from AI."
                    ELSE response[h].data.response>>
             ELSE <<":warning: Gumloop returned error: ", ToString(response[h].status)>>
    /\ Len(sayCalls[h]) >= 2 =>
          sayCalls[h][2].text = <<":x: Error connecting to AI: ", "SlackApiError">>

C15_NoInterference ==
    /\ [](\A h \in Handlers : OwnCalls(h))
    /\ [][\A h \in Handlers :
            pc'[h] = pc[h] =>
                /\ event'[h] = event[h]
                /\ response'[h] = response[h]
                /\ exc'[h] = exc[h]
                /\ reactionCalls'[h] = reactionCalls[h]
                /\ webhookReqs'[h] = webhookReqs[h]
                /\ sayCalls'[h] = sayCalls[h]]_vars

C15_Witness ==
    \E g, h \in Handlers :
        /\ g < h
        /\ event[g].channel # event[h].channel
        /\ PassesFilter(g)
        /\ PassesFilter(h)
        /\ h \notin returnedBefore[g]
        /\ g \notin returnedBefore[h]
        /\ response[g].kind = "Timeout"
        /\ ReplyPosted(h)
        /\ InLog(g)
        /\ LogIndex(h) < LogIndex(g)

====
